---- MODULE Spec2Model ----
(***************************************************************************)
(* A model of sync.py (pirr/sqlite_sync): incremental one-way copy of the  *)
(* rows of a source SQLite database ("main") into an attached target.      *)
(*                                                                         *)
(* Table names and creation SQL are sequences of lexical tokens, so that   *)
(* RE_REFERENCES is modelled by what it matches and not by the foreign     *)
(* keys the schema declares.                                               *)
(***************************************************************************)
EXTENDS Integers, Sequences, FiniteSets, TLC

VARIABLES
    fk,             \* main: table name -> the foreign-key targets its DDL declares, in order
    form,           \* how the DDL of main writes a REFERENCES clause
    src,            \* main: table name -> [cols, rows]
    tgt,            \* the attached target: table name -> [cols, rows]
    tables,         \* the list handed to get_references (sqlite_master order in a sync)
    tables_copy,    \* get_references: the work queue
    references,     \* get_references: the result list (backup_tables in a sync)
    on_ref_table,   \* get_references: the table popped last
    ref_tables,     \* get_references: what is left of the for loop over findall's result
    queued,         \* history: every name put on the work queue, in order
    fetched,        \* history: every name whose creation SQL was read, in order
    di,             \* sync: position of the diff loop in backup_tables
    diff_rows,      \* the list db_diff returned last
    new_data,       \* sync: the (table, rows) pairs collected by the diff loop
    ai,             \* sync: position of the apply loop in new_data[::-1]
    rows,           \* the row list handed to copy_rows
    calls,          \* how many times copy_rows has returned
    tgt0,           \* history: the target when the run (or the first call) began
    run,            \* sync: 1 in the first run, 2 in the run that follows it
    raised,         \* the exception that ended the run, "" while there is none
    pc              \* control position

refVars == <<fk, form, tables, tables_copy, references, on_ref_table, ref_tables,
             queued, fetched>>
dataVars == <<src, tgt, di, diff_rows, new_data, ai, rows, calls, tgt0, run>>
vars == <<refVars, dataVars, raised, pc>>

----------------------------------------------------------------------------
(* Bounds.                                                                 *)

\* the most REFERENCES clauses in the creation SQL of one database
MaxRefs == 3

----------------------------------------------------------------------------
(* Characters and names.                                                   *)

Lower == {"a", "b", "c", "d", "e", "f", "g", "h", "i", "j", "k", "l", "m",
          "n", "o", "p", "q", "r", "s", "t", "u", "v", "w", "x", "y", "z"}
Upper == {"A", "B", "C", "D", "E", "F", "G", "H", "I", "J", "K", "L", "M",
          "N", "O", "P", "Q", "R", "S", "T", "U", "V", "W", "X", "Y", "Z"}
Digits == {"0", "1", "2", "3", "4", "5", "6", "7", "8", "9"}

\* tokens for the characters " ' \ and ` (written out by name)
DQ == "<dquote>"
SQ == "<squote>"
BackSlash == "<backslash>"
BackTick == "<backtick>"

\* the character class [A-z0-9]: the ASCII range A..z also holds [ \ ] ^ _ `
ClassAz09 == Upper \cup {"[", BackSlash, "]", "^", "_", BackTick} \cup Lower \cup Digits

\* the word "references" in any letter case (re.IGNORECASE), one token
Keyword == {"references", "REFERENCES", "References"}

TA == <<"a">>
TB == <<"b">>
TC == <<"c">>
THyphen == <<"a", "-", "b">>

\* tables of a database whose names are plain identifiers
PlainTables == {TA, TB, TC}
\* tables of a database one of whose names needs quoting
OddTables == {TA, TB, THyphen}

Range(s) == {s[i] : i \in 1..Len(s)}
NoRepeats(s) == \A i, j \in 1..Len(s) : s[i] = s[j] => i = j
SeqsUpTo(S, n) == UNION {[1..k -> S] : k \in 0..n}
ListsOf(S) == {s \in SeqsUpTo(S, Cardinality(S)) : NoRepeats(s)}
Perms(S) == {s \in ListsOf(S) : Len(s) = Cardinality(S)}

----------------------------------------------------------------------------
(* check_name                                                              *)

check_name(table_name) ==
    \A i \in 1..Len(table_name) :
        \/ table_name[i] \in Lower \cup Upper \cup Digits
        \/ table_name[i] \in {"_", "-"}

----------------------------------------------------------------------------
(* The creation SQL stored in sqlite_master, and RE_REFERENCES.            *)

RecognisedForms == {"bare", "dquoted"}
QuotedForms == {"dquoted", "squoted", "bracketed"}

\* one foreign-key clause, as the DDL of main writes it
Clause(f, name) ==
    CASE f = "bare"      -> <<"references", " ">> \o name
      [] f = "dquoted"   -> <<"REFERENCES", " ", DQ>> \o name \o <<DQ>>
      [] f = "squoted"   -> <<"references", " ", SQ>> \o name \o <<SQ>>
      [] f = "bracketed" -> <<"references", " ", "[">> \o name \o <<"]">>

RECURSIVE Columns(_, _)
Columns(f, refs) ==
    IF refs = <<>> THEN <<>>
    ELSE <<",", " ", "x", " ">> \o Clause(f, Head(refs)) \o <<"(", "id", ")">>
         \o Columns(f, Tail(refs))

\* CREATE TABLE t (id, x REFERENCES r1(id), x REFERENCES r2(id))
CreateSql(f, t, refs) ==
    <<"CREATE", " ", "TABLE", " ", DQ>> \o t \o <<DQ, " ", "(", "id">>
    \o Columns(f, refs) \o <<")">>

\* select sql from main.sqlite_master where tbl_name=?  (fetchone: a row or None)
sqlite_master(t) ==
    IF t \in DOMAIN fk THEN <<CreateSql(form, t, fk[t])>> ELSE <<>>

RECURSIVE SkipWhile(_, _, _)
\* the first position >= i of sql whose token is not in set S
SkipWhile(sql, i, S) ==
    IF i <= Len(sql) /\ sql[i] \in S THEN SkipWhile(sql, i + 1, S) ELSE i

\* references ["]*([A-z0-9]+)["]*  tried at position i
MatchAt(sql, i) ==
    LET j == SkipWhile(sql, i + 2, {DQ})
        k == SkipWhile(sql, j, ClassAz09)
    IN  [ok    |-> /\ i + 1 <= Len(sql)
                   /\ sql[i] \in Keyword
                   /\ sql[i + 1] = " "
                   /\ k > j,
         group |-> SubSeq(sql, j, k - 1),
         end   |-> SkipWhile(sql, k, {DQ})]

RECURSIVE FindAllFrom(_, _)
FindAllFrom(sql, i) ==
    IF i > Len(sql) THEN <<>>
    ELSE LET m == MatchAt(sql, i)
         IN  IF m.ok THEN <<m.group>> \o FindAllFrom(sql, m.end)
             ELSE FindAllFrom(sql, i + 1)

\* RE_REFERENCES.findall(sql)
RE_REFERENCES_findall(sql) == FindAllFrom(sql, 1)

----------------------------------------------------------------------------
(* get_references, one step per loop iteration.                            *)

Member(x, s) == \E i \in 1..Len(s) : s[i] = x

\* references.sort(key=table.__eq__): a stable sort on False < True
SortKeyEq(refs, table) ==
    SelectSeq(refs, LAMBDA e : e # table) \o SelectSeq(refs, LAMBDA e : e = table)

\* lines 106-114: pop the queue, record the table, read and scan its SQL
Pop ==
    /\ raised = ""
    /\ pc = "while"
    /\ tables_copy # <<>>
    /\ LET t   == Head(tables_copy)
           row == sqlite_master(t)
       IN  /\ on_ref_table' = t
           /\ tables_copy' = Tail(tables_copy)
           /\ references' = IF Member(t, references) THEN references
                            ELSE Append(references, t)
           /\ fetched' = Append(fetched, t)
           /\ IF row = <<>>
              THEN /\ raised' = "TypeError"    \* sql[0] with sql = None
                   /\ UNCHANGED <<ref_tables, pc>>
              ELSE LET found == RE_REFERENCES_findall(row[1])
                   IN  /\ ref_tables' = found
                       /\ pc' = IF found = <<>> THEN "while" ELSE "for"
                       /\ UNCHANGED raised
    /\ UNCHANGED <<fk, form, tables, queued, dataVars>>

\* mutant: a referenced table is never put on the queue
Enqueue_Never(queue, refs, table) == queue

\* mutant: the test `table not in tables_copy` is left out
Enqueue_Unchecked(queue, refs, table) ==
    IF Member(table, refs) THEN queue ELSE Append(queue, table)

\* the new work queue after the for loop's body has seen `table` (lines 117-120)
Enqueue(queue, refs, table) ==
    IF Member(table, refs) THEN queue
    ELSE IF ~Member(table, queue) THEN Append(queue, table)
    ELSE queue

\* lines 116-122: one iteration of the for loop
ForRef ==
    /\ raised = ""
    /\ pc = "for"
    /\ ref_tables # <<>>
    /\ LET table == Head(ref_tables)
           q     == Enqueue(tables_copy, references, table)
       IN  /\ references' = Append(IF Member(table, references)
                                   THEN SortKeyEq(references, table)
                                   ELSE references, table)
           /\ tables_copy' = q
           /\ queued' = IF q = tables_copy THEN queued ELSE Append(queued, table)
           /\ ref_tables' = Tail(ref_tables)
           /\ pc' = IF Tail(ref_tables) = <<>> THEN "while" ELSE "for"
    /\ UNCHANGED <<fk, form, tables, on_ref_table, fetched, dataVars, raised>>

\* line 106 with an empty queue, line 124
Return ==
    /\ raised = ""
    /\ pc = "while"
    /\ tables_copy = <<>>
    /\ pc' = "return"
    /\ UNCHANGED <<refVars, dataVars, raised>>

\* the state at line 106 on entry: tables_copy = tables[:], references = []
Entry(input) ==
    /\ tables = input
    /\ tables_copy = input
    /\ references = <<>>
    /\ on_ref_table = <<>>
    /\ ref_tables = <<>>
    /\ queued = input
    /\ fetched = <<>>
    /\ raised = ""
    /\ pc = "while"

\* no rows and no sync: the state of a run that only calls get_references
NoData ==
    /\ src = <<>> /\ tgt = <<>> /\ tgt0 = <<>>
    /\ di = 1 /\ ai = 1 /\ run = 1 /\ calls = 0
    /\ diff_rows = <<>> /\ new_data = <<>> /\ rows = <<>>

\* the foreign keys of a schema whose clauses are owner-target pairs, in DDL order
Declared(T, clauses) ==
    [t \in T |->
        LET mine == SelectSeq(clauses, LAMBDA c : c[1] = t)
        IN  [i \in 1..Len(mine) |-> mine[i][2]]]

Schemas(T) == {Declared(T, cl) : cl \in SeqsUpTo(T \X T, MaxRefs)}

\* a database of plain-named tables whose DDL writes references as the pattern expects
InitRefs ==
    /\ fk \in Schemas(PlainTables)
    /\ form \in RecognisedForms
    /\ \E input \in ListsOf(PlainTables) : Entry(input)
    /\ NoData

\* a database with a table name that needs quoting, in each quoting style of SQLite
InitRefsQuoted ==
    /\ fk \in Schemas(OddTables)
    /\ form \in QuotedForms
    /\ \E input \in ListsOf(OddTables) : Entry(input)
    /\ NoData

NextRefs == Pop \/ ForRef \/ Return

SpecRefs == InitRefs /\ [][NextRefs]_vars

SpecRefsQuoted == InitRefsQuoted /\ [][NextRefs]_vars

----------------------------------------------------------------------------
(* Reference graphs.                                                       *)

\* the tables whose names the DDL of t declares as foreign-key targets
DeclaredRefs(t) == IF t \in DOMAIN fk THEN Range(fk[t]) ELSE {}

\* the names RE_REFERENCES extracts from the creation SQL of t
ScannedRefs(t) ==
    IF t \in DOMAIN fk THEN Range(RE_REFERENCES_findall(sqlite_master(t)[1])) ELSE {}

\* the two graphs, as functions from the tables of main to sets of names
DeclaredGraph == [t \in DOMAIN fk |-> DeclaredRefs(t)]
ScannedGraph == [t \in DOMAIN fk |-> ScannedRefs(t)]

RECURSIVE Reach(_, _)
\* S and everything reachable from it along the edges of graph g
Reach(S, g) ==
    LET more == S \cup UNION {g[t] : t \in S \cap DOMAIN g}
    IN  IF more = S THEN S ELSE Reach(more, g)

\* no table reaches itself along one or more declared references
Acyclic == \A t \in DOMAIN fk : \A r \in DeclaredRefs(t) : t \notin Reach({r}, DeclaredGraph)

Reverse(s) == [i \in 1..Len(s) |-> s[Len(s) + 1 - i]]

\* the position of the first occurrence of x in s
First(s, x) == CHOOSE i \in 1..Len(s) : s[i] = x /\ \A j \in 1..(i - 1) : s[j] # x

\* new_data[::-1]: the order in which the tables of the result are applied
ApplyOrder == Reverse(references)

----------------------------------------------------------------------------
(* Claims about get_references.                                            *)

\* C1 (as claimed): when the declared references are acyclic, get_references'
\* output read in reverse applies every referenced table before (the first
\* application of) every table that references it, for every input order.
C1_ParentsAppliedFirst ==
    (pc = "return" /\ Acyclic) =>
        \A t \in DOMAIN fk : \A r \in DeclaredRefs(t) :
            (Member(t, references) /\ Member(r, references)) =>
                First(ApplyOrder, r) < First(ApplyOrder, t)

\* C9 (as claimed): the names in the output are the input tables and all
\* tables reachable from them along the declared foreign keys.
C9_DeclaredClosure ==
    pc = "return" => Range(references) = Reach(Range(tables), DeclaredGraph)

\* C9 (amended): the names in the output are the input tables and all names
\* reachable from them along the references that RE_REFERENCES extracts.
C9_ScannedClosure ==
    pc = "return" => Range(references) = Reach(Range(tables), ScannedGraph)

\* C9 witness: a returned result that holds a table found only by following
\* a reference of a table that was itself found by reference.
C9_Witness ==
    /\ pc = "return"
    /\ \E t \in Range(references) \ Range(tables) :
          \E r \in ScannedRefs(t) : r \notin Range(tables) /\ r # t

\* the work get_references has left: tables of main not read yet (each costs
\* at most one pop and one for-loop pass per REFERENCES clause), the passes
\* left in the running for loop, and the return
Variant ==
    Cardinality(DOMAIN fk \ Range(fetched)) * (MaxRefs + 2)
    + Len(ref_tables) + (IF pc = "return" THEN 0 ELSE 1)

\* the guards of Pop, Return and ForRef: some step of get_references is possible
CanStep == raised = "" /\ (pc = "while" \/ (pc = "for" /\ ref_tables # <<>>))

\* C10: no table is put on the work queue twice, no table's creation SQL is
\* read twice, and get_references terminates: until it has returned, with
\* the queue empty, a step is possible, and every step takes the natural
\* number Variant down.
C10_Terminates ==
    /\ [](NoRepeats(queued) /\ NoRepeats(fetched))
    /\ []((pc = "return" /\ tables_copy = <<>>) \/ CanStep)
    /\ [][Variant' < Variant]_vars

\* C10 witness: a return from a graph with a self-reference and a two-table cycle.
C10_Witness ==
    /\ pc = "return"
    /\ \E t \in Range(fetched) : t \in DeclaredRefs(t)
    /\ \E t, r \in Range(fetched) :
          t # r /\ r \in DeclaredRefs(t) /\ t \in DeclaredRefs(r)
    /\ Range(references) # Range(tables)

----------------------------------------------------------------------------
(* Tables, rows and schemas.                                               *)

\* the most rows one database holds
MaxRows == 2

\* a column as PRAGMA_TABLE_INFO reports it: <<cid, name, type, pk>>
\* (notnull and dflt_value are the same in every column of the model)
ColName(c) == c[2]
ColIsPk(c) == c[4] # 0

IdCol(cid, keyed) == <<cid, "id", "INTEGER", IF keyed THEN 1 ELSE 0>>

\* CREATE TABLE t (id INTEGER [PRIMARY KEY], val TEXT)
SourceCols(keyed) == <<IdCol(0, keyed), <<1, "val", "TEXT", 0>>>>

DriftKinds == {"same", "reordered", "retyped", "missing", "extra"}

\* the columns of the target's copy of the table
TargetCols(keyed, kind) ==
    CASE kind = "same"      -> SourceCols(keyed)
      [] kind = "reordered" -> <<<<0, "val", "TEXT", 0>>, IdCol(1, keyed)>>
      [] kind = "retyped"   -> <<IdCol(0, keyed), <<1, "val", "BLOB", 0>>>>
      [] kind = "missing"   -> <<IdCol(0, keyed)>>
      [] kind = "extra"     -> SourceCols(keyed) \o <<<<2, "extra", "TEXT", 0>>>>

\* the values a column of the model takes
ValuesOf(name) ==
    CASE name = "id"    -> {1}
      [] name = "val"   -> {1, 2}
      [] name = "extra" -> {0}

\* every row a table with these columns can hold
RowsOver(cols) ==
    {r \in [1..Len(cols) -> {0, 1, 2}] :
        \A i \in 1..Len(cols) : r[i] \in ValuesOf(ColName(cols[i]))}

\* a bag of rows: row -> how many copies the table holds
EmptyBag == <<>>
Count(bag, r) == IF r \in DOMAIN bag THEN bag[r] ELSE 0
BagOf(S, count(_)) == [r \in {x \in S : count(x) > 0} |-> count(r)]
AddRow(bag, r) ==
    [x \in DOMAIN bag \cup {r} |-> IF x = r THEN Count(bag, r) + 1 ELSE bag[x]]
Size(bag) ==
    LET RECURSIVE Sum(_)
        Sum(S) == IF S = {} THEN 0
                  ELSE LET x == CHOOSE y \in S : TRUE IN bag[x] + Sum(S \ {x})
    IN  Sum(DOMAIN bag)

\* the positions of the primary-key columns
KeyPositions(cols) == {i \in 1..Len(cols) : ColIsPk(cols[i])}

SameKey(cols, r1, r2) ==
    /\ KeyPositions(cols) # {}
    /\ \A i \in KeyPositions(cols) : r1[i] = r2[i]

\* the table satisfies its PRIMARY KEY constraint
KeyOK(table) ==
    \A r1 \in DOMAIN table.rows :
        /\ KeyPositions(table.cols) # {} => table.rows[r1] = 1
        /\ \A r2 \in DOMAIN table.rows : SameKey(table.cols, r1, r2) => r1 = r2

\* the contents a database with these tables and columns can have
Contents(T, cols) ==
    LET Item == UNION {{<<t, r>> : r \in RowsOver(cols[t])} : t \in T}
        Db(items) ==
            [t \in T |->
                [cols |-> cols[t],
                 rows |-> BagOf(RowsOver(cols[t]),
                                LAMBDA r : Cardinality({i \in 1..Len(items) :
                                                          items[i] = <<t, r>>}))]]
    IN  {db \in {Db(items) : items \in SeqsUpTo(Item, MaxRows)} :
            \A t \in T : KeyOK(db[t])}

----------------------------------------------------------------------------
(* db_diff                                                                 *)

\* SELECT * FROM main.PRAGMA_TABLE_INFO(?): no rows for a table that is not there
PragmaTableInfo(db, t) == IF t \in DOMAIN db THEN db[t].cols ELSE <<>>

\* SELECT * FROM {target_db_alias}.PRAGMA_TABLE_INFO(?).  The code asks for the
\* target's columns.  SQLite resolves a table-valued pragma as an eponymous
\* virtual table and does not use the schema qualifier, so the pragma looks
\* the name up in main first (observed with SQLite 3.40); `qualified` says
\* whether the engine at hand uses the qualifier.
TargetTableInfo(t, qualified) ==
    IF qualified \/ t \notin DOMAIN src
    THEN PragmaTableInfo(tgt, t)
    ELSE PragmaTableInfo(src, t)

Names(cols) == [i \in 1..Len(cols) |-> ColName(cols[i])]

\* the position of column `name` in cols
Position(cols, name) == CHOOSE i \in 1..Len(cols) : ColName(cols[i]) = name

\* SELECT {columns} FROM a table: the row's values in the order of `columns`
Project(cols, r, columns) ==
    [i \in 1..Len(columns) |-> r[Position(cols, columns[i])]]

\* how many rows of the table project to p
Projected(table, columns, p) ==
    LET hit == {r \in DOMAIN table.rows : Project(table.cols, r, columns) = p}
        RECURSIVE Sum(_)
        Sum(S) == IF S = {} THEN 0
                  ELSE LET x == CHOOSE y \in S : TRUE
                       IN  table.rows[x] + Sum(S \ {x})
    IN  Sum(hit)

\* a set as a list (fetchall() after GROUP BY: one row per group)
RECURSIVE ListOf(_)
ListOf(S) ==
    IF S = {} THEN <<>>
    ELSE LET x == CHOOSE y \in S : TRUE IN <<x>> \o ListOf(S \ {x})

\* mutant: the groups that hold a source row, whatever else they hold
HavingSum_Any(in_target, in_source) == in_source > 0

\* having sum(db)=2 over a group with db = 1 for target rows, 2 for source rows
HavingSum(in_target, in_source) == 1 * in_target + 2 * in_source = 2

\* lines 72-82: the UNION ALL ... GROUP BY {columns} HAVING sum(db)=2 query
DiffQuery(t, columns) ==
    LET S == src[t]
        T == tgt[t]
        groups == {Project(S.cols, r, columns) : r \in DOMAIN S.rows}
                  \cup {Project(T.cols, r, columns) : r \in DOMAIN T.rows}
    IN  ListOf({g \in groups :
                  HavingSum(Projected(T, columns, g), Projected(S, columns, g))})

\* db_diff(conn, table_name, target_db_alias): [raised, rows]
db_diff(t, qualified) ==
    LET source_table_columns == PragmaTableInfo(src, t)
        target_table_columns == TargetTableInfo(t, qualified)
        columns_only_in_source ==
            Range(source_table_columns) \ Range(target_table_columns)
        columns_only_in_backup ==
            Range(target_table_columns) \ Range(source_table_columns)
        columns == Names(source_table_columns)
    IN  IF columns_only_in_source # {} \/ columns_only_in_backup # {}
        \* ', '.join(...) over a set of tuples (lines 61, 65): line 68 is not reached
        THEN [raised |-> "TypeError", rows |-> <<>>]
        ELSE IF \/ t \notin DOMAIN src
                \/ t \notin DOMAIN tgt
                \/ Range(columns) \ Range(Names(tgt[t].cols)) # {}
        \* no such table, no such column
        THEN [raised |-> "OperationalError", rows |-> <<>>]
        ELSE [raised |-> "", rows |-> DiffQuery(t, columns)]

----------------------------------------------------------------------------
(* copy_rows                                                               *)

\* mutant: REPLACE that takes the first column for the key of every table
Conflicts_FirstColumn(cols, old, new) == old[1] = new[1]

\* mutant: a plain INSERT, which deletes nothing
Conflicts_Never(cols, old, new) == FALSE

\* the rows INSERT OR REPLACE deletes: those with the new row's primary key
Conflicts(cols, old, new) == SameKey(cols, old, new)

\* INSERT OR REPLACE INTO t VALUES (...) of one row
InsertOrReplace(table, r) ==
    LET kept == BagOf(DOMAIN table.rows,
                      LAMBDA x : IF Conflicts(table.cols, x, r) THEN 0
                                 ELSE table.rows[x])
    IN  [table EXCEPT !.rows = AddRow(kept, r)]

RECURSIVE ExecuteMany(_, _, _)
\* conn.executemany(q, rows) with n placeholders: [raised, table]
ExecuteMany(table, n, rs) ==
    IF rs = <<>> THEN [raised |-> "", table |-> table]
    ELSE IF Len(Head(rs)) # n
    THEN [raised |-> "ProgrammingError", table |-> table]
    ELSE ExecuteMany(InsertOrReplace(table, Head(rs)), n, Tail(rs))

\* copy_rows(conn, table_name, rows, target_db_alias): [raised, tgt]
copy_rows(t, rs) ==
    IF rs = <<>> THEN [raised |-> "ValueError", tgt |-> tgt]
    ELSE IF t \notin DOMAIN tgt \/ Len(rs[1]) # Len(tgt[t].cols)
    \* no such table; table has N columns but M values were supplied
    THEN [raised |-> "OperationalError", tgt |-> tgt]
    ELSE LET done == ExecuteMany(tgt[t], Len(rs[1]), rs)
         IN  [raised |-> done.raised, tgt |-> [tgt EXCEPT ![t] = done.table]]

----------------------------------------------------------------------------
(* Direct calls of db_diff and of copy_rows on one table.                  *)

OneTable == {TA}

NoSync ==
    /\ fk = [t \in OneTable |-> <<>>] /\ form = "bare"
    /\ tables = <<TA>> /\ tables_copy = <<>> /\ references = <<>>
    /\ on_ref_table = <<>> /\ ref_tables = <<>> /\ queued = <<>> /\ fetched = <<>>
    /\ di = 1 /\ ai = 1 /\ run = 1 /\ calls = 0
    /\ diff_rows = <<>> /\ new_data = <<>>
    /\ raised = "" /\ pc = "call"

\* a source table and the target's copy of it, whose columns may have drifted
InitDiff ==
    /\ NoSync
    /\ \E keyed \in BOOLEAN, kind \in DriftKinds :
          /\ src \in Contents(OneTable, [t \in OneTable |-> SourceCols(keyed)])
          /\ tgt \in Contents(OneTable, [t \in OneTable |-> TargetCols(keyed, kind)])
    /\ tgt0 = tgt
    /\ rows = <<>>

\* diff_rows = db_diff(conn, table_name, target_db_alias)
DiffCall ==
    /\ pc = "call"
    /\ \E qualified \in BOOLEAN :
          LET d == db_diff(TA, qualified)
          IN  /\ diff_rows' = d.rows
              /\ raised' = d.raised
    /\ pc' = "done"
    /\ UNCHANGED <<refVars, src, tgt, di, new_data, ai, rows, calls, tgt0, run>>

SpecDiff == InitDiff /\ [][DiffCall]_vars

\* a target table and a list of rows, of the table's arity or one short
InitCopy ==
    /\ NoSync
    /\ src = <<>>
    /\ \E keyed \in BOOLEAN :
          /\ tgt \in Contents(OneTable, [t \in OneTable |-> SourceCols(keyed)])
          /\ rows \in SeqsUpTo(RowsOver(SourceCols(keyed))
                               \cup RowsOver(TargetCols(keyed, "missing")), MaxRows)
    /\ tgt0 = tgt

\* copy_rows(conn, table_name, rows, target_db_alias), called a first and a second time
CopyCall ==
    /\ pc = "call"
    /\ raised = ""
    /\ calls < 2
    /\ LET c == copy_rows(TA, rows)
       IN  /\ tgt' = c.tgt
           /\ raised' = c.raised
    /\ tgt0' = tgt
    /\ calls' = calls + 1
    /\ UNCHANGED <<refVars, src, di, diff_rows, new_data, ai, rows, run, pc>>

SpecCopy == InitCopy /\ [][CopyCall]_vars

----------------------------------------------------------------------------
(* The sync of the module docstring (HOW TO USE), read as the loops it     *)
(* sketches: the pair is appended inside the loop over backup_tables, the  *)
(* apply loop runs on the open connection, and its guard tests the rows of *)
(* the pair at hand.                                                       *)

TParent == <<"p", "a", "r", "e", "n", "t">>
TChild == <<"c", "h", "i", "l", "d">>
TGone == <<"g", "o", "n", "e">>

SyncTables == {TParent, TChild}

\* the schemas of main: no foreign key; child references parent; a cycle;
\* a self-reference and a repeated reference; a reference to a table that
\* main does not hold
SyncSchemas ==
    {[t \in SyncTables |-> <<>>],
     [t \in SyncTables |-> IF t = TChild THEN <<TParent>> ELSE <<>>],
     [t \in SyncTables |-> IF t = TChild THEN <<TParent>> ELSE <<TChild>>],
     [t \in SyncTables |-> IF t = TChild THEN <<TParent, TParent>> ELSE <<TParent>>],
     [t \in SyncTables |-> IF t = TChild THEN <<TParent>> ELSE <<TGone>>]}

\* tables = get_all_tables(conn): the names in sqlite_master's order
get_all_tables == tables

\* the two databases before the first run; the target's child may have drifted
Init ==
    /\ fk \in SyncSchemas
    /\ form = "bare"
    /\ tables \in Perms(SyncTables)
    /\ \E keyed \in BOOLEAN, kind \in DriftKinds :
          /\ src \in Contents(SyncTables, [t \in SyncTables |-> SourceCols(keyed)])
          /\ tgt \in Contents(SyncTables,
                              [t \in SyncTables |->
                                  IF t = TChild THEN TargetCols(keyed, kind)
                                  ELSE SourceCols(keyed)])
    /\ tgt0 = tgt
    /\ tables_copy = <<>> /\ references = <<>> /\ on_ref_table = <<>>
    /\ ref_tables = <<>> /\ queued = <<>> /\ fetched = <<>>
    /\ di = 1 /\ ai = 1 /\ run = 1 /\ calls = 0
    /\ diff_rows = <<>> /\ new_data = <<>> /\ rows = <<>>
    /\ raised = "" /\ pc = "idle"

\* lines 9-11: get_all_tables, the call of get_references, new_data = []
Begin ==
    /\ raised = ""
    /\ pc = "idle"
    /\ tables_copy' = get_all_tables
    /\ queued' = get_all_tables
    /\ references' = <<>>
    /\ fetched' = <<>>
    /\ on_ref_table' = <<>>
    /\ ref_tables' = <<>>
    /\ new_data' = <<>>
    /\ di' = 1
    /\ ai' = 1
    /\ tgt0' = tgt
    /\ pc' = "while"
    /\ UNCHANGED <<fk, form, tables, src, tgt, diff_rows, rows, calls, run, raised>>

\* lines 13-21: one pass of the loop over backup_tables
DiffTable ==
    /\ raised = ""
    /\ pc \in {"return", "diff"}
    /\ di <= Len(references)
    /\ pc' = "diff"
    /\ LET table == references[di]
       IN  IF ~check_name(table)
           THEN /\ raised' = "ValueError"
                /\ UNCHANGED <<di, diff_rows, new_data>>
           ELSE \E qualified \in BOOLEAN :
                  LET d == db_diff(table, qualified)
                  IN  IF d.raised # ""
                      THEN /\ raised' = d.raised
                           /\ UNCHANGED <<di, diff_rows, new_data>>
                      ELSE /\ diff_rows' = d.rows
                           /\ new_data' = IF d.rows # <<>>
                                          THEN Append(new_data, <<table, d.rows>>)
                                          ELSE new_data
                           /\ di' = di + 1
                           /\ UNCHANGED raised
    /\ UNCHANGED <<refVars, src, tgt, ai, rows, calls, tgt0, run>>

\* mutant: the apply loop starts while tables are still to be diffed
ApplyLoopReached_Early == pc \in {"diff", "apply"}

\* line 23 is reached: the loop over backup_tables has ended
ApplyLoopReached == pc \in {"diff", "apply"} /\ di > Len(references)

\* lines 23-30: one pass of the loop over new_data[::-1]
CopyTable ==
    /\ raised = ""
    /\ ApplyLoopReached
    /\ ai <= Len(new_data)
    /\ pc' = "apply"
    /\ LET pair == Reverse(new_data)[ai]
           c    == copy_rows(pair[1], pair[2])
       IN  /\ tgt' = c.tgt
           /\ raised' = c.raised
           /\ ai' = IF c.raised = "" THEN ai + 1 ELSE ai
           /\ calls' = IF c.raised = "" THEN calls + 1 ELSE calls
    /\ UNCHANGED <<refVars, src, di, diff_rows, new_data, rows, tgt0, run>>

\* line 32: conn.commit()
Commit ==
    /\ raised = ""
    /\ ApplyLoopReached
    /\ ai > Len(new_data)
    /\ pc' = "committed"
    /\ UNCHANGED <<refVars, dataVars, raised>>

\* the sync is run once more, the source as it was
Rerun ==
    /\ raised = ""
    /\ pc = "committed"
    /\ run = 1
    /\ run' = 2
    /\ pc' = "idle"
    /\ UNCHANGED <<refVars, src, tgt, di, diff_rows, new_data, ai, rows, calls,
                   tgt0, raised>>

Next ==
    \/ Begin
    \/ Pop
    \/ ForRef
    \/ Return
    \/ DiffTable
    \/ CopyTable
    \/ Commit
    \/ Rerun

Spec == Init /\ [][Next]_vars

----------------------------------------------------------------------------
(* Claims about db_diff and copy_rows called on one table.                 *)

SameNames(t) == Range(Names(src[t].cols)) = Range(Names(tgt[t].cols))

\* the rows of the source table that no row of the target table equals,
\* both read through the source's columns
SourceOnly(t) ==
    LET columns == Names(src[t].cols)
    IN  {r \in DOMAIN src[t].rows :
            \A x \in DOMAIN tgt[t].rows : Project(tgt[t].cols, x, columns) # r}

\* C3 (as claimed): on tables with matching columns db_diff returns exactly
\* the rows that occur in the source and do not occur in the target,
\* whatever multiset of rows each side holds.
C3_ExactlySourceOnly ==
    (pc = "done" /\ raised = "" /\ SameNames(TA)) =>
        Range(diff_rows) = SourceOnly(TA)

\* C6 (as claimed): db_diff fails if and only if the column-name sets of the
\* source table and of the target table differ; a difference only in column
\* order or declared type raises nothing.
C6_FailsIffNamesDiffer ==
    pc = "done" => (raised # "" <=> ~SameNames(TA))

\* the table has a primary key
Keyed(db, t) == KeyPositions(db[t].cols) # {}

\* C5 (as claimed): for every target table and non-empty row list, a second
\* copy_rows with the same rows leaves the table as the first call left it.
C5_Idempotent ==
    (calls = 2 /\ raised = "" /\ rows # <<>>) => tgt = tgt0

\* the last row of the list with the primary key of r
LastWithKey(cols, rs, r) ==
    rs[CHOOSE i \in 1..Len(rs) :
          /\ SameKey(cols, rs[i], r)
          /\ \A j \in (i + 1)..Len(rs) : ~SameKey(cols, rs[j], r)]

\* C5 (amended): for a target table with a primary key, a second copy_rows
\* with the same rows leaves the table as the first call left it, and each
\* key of the list is stored once, with the values of the last row that has it.
C5_IdempotentOnKeyed ==
    (calls = 2 /\ raised = "" /\ rows # <<>> /\ Keyed(tgt, TA)) =>
        /\ tgt = tgt0
        /\ \A i \in 1..Len(rows) :
              \A x \in DOMAIN tgt[TA].rows :
                 SameKey(tgt[TA].cols, x, rows[i]) =>
                    /\ x = LastWithKey(tgt[TA].cols, rows, rows[i])
                    /\ tgt[TA].rows[x] = 1

\* C5 witness: two calls on a keyed table that held another version of a row
\* of the list, the list carrying two versions of it.
C5_Witness ==
    /\ calls = 2 /\ raised = "" /\ Keyed(tgt, TA)
    /\ Len(rows) = 2 /\ rows[1] # rows[2]
    /\ tgt[TA].rows = [r \in {rows[2]} |-> 1]

----------------------------------------------------------------------------
(* Claims about the sync.                                                  *)

SameSchemas == \A t \in DOMAIN src : src[t].cols = tgt[t].cols

\* C2 (as claimed): after a sync that ran to completion on databases with
\* identical schemas every row of every source table is in the target table
\* of the same name.
C2_SourceRowsInTarget ==
    (pc = "committed" /\ SameSchemas) =>
        \A t \in DOMAIN src : DOMAIN src[t].rows \subseteq DOMAIN tgt[t].rows

C7_NoRowRemoved ==
    pc \in {"apply", "committed"} =>
        \A t \in DOMAIN tgt0 :
            DOMAIN tgt0[t].rows \subseteq DOMAIN tgt[t].rows

\* the rows the apply loop has been handed for table t
Applied(t) ==
    UNION {Range(new_data[i][2]) : i \in {j \in 1..Len(new_data) : new_data[j][1] = t}}

\* C7 (amended): a row the target held before the apply phase is still in
\* its table, in as many copies, unless a row applied to the table has its
\* primary key and has taken its place; a table without a key loses nothing.
C7_RemovedOnlyByReplace ==
    pc \in {"apply", "committed"} =>
        \A t \in DOMAIN tgt0 : \A r \in DOMAIN tgt0[t].rows :
            \/ Count(tgt[t].rows, r) >= tgt0[t].rows[r]
            \/ \E x \in Applied(t) \cap DOMAIN tgt[t].rows :
                  x # r /\ SameKey(tgt[t].cols, r, x)

\* C7 witness: a completed sync whose target lost the old version of a row
\* and kept a row that the source does not hold.
C7_Witness ==
    /\ pc = "committed"
    /\ \E t \in DOMAIN tgt0 : \E r \in DOMAIN tgt0[t].rows : r \notin DOMAIN tgt[t].rows
    /\ \E t \in DOMAIN tgt0 : \E r \in DOMAIN tgt0[t].rows :
          r \in DOMAIN tgt[t].rows /\ r \notin DOMAIN src[t].rows

\* C8: the target changes only once get_references has returned and db_diff
\* has returned for every table of the sync order, and after a failure of
\* get_references, check_name or db_diff the target is as it was before the run.
C8_NoWriteBeforeDiffsDone ==
    /\ []((raised # "" /\ pc \in {"while", "for", "return", "diff"}) => tgt = tgt0)
    /\ [][tgt' # tgt => (pc \in {"diff", "apply"} /\ di > Len(references))]_vars

\* C8 witness: db_diff failed on a table after the diff of an earlier table
\* had been collected.
C8_Witness ==
    /\ raised # ""
    /\ pc = "diff"
    /\ new_data # <<>>
    /\ tgt = tgt0

====
